---- MODULE Spec2Model ----
(***************************************************************************)
(* Model of the Apple Touch Bar driver, drivers/hid/apple-touchbar/        *)
(* apple-ib-tb.c: the device state (struct appletb_device), the sysfs      *)
(* attributes, the HID driver callbacks and the delayed work tb_work.      *)
(*                                                                         *)
(* The source holds the state and the lifecycle callbacks.  It holds no    *)
(* body for the delayed work (INIT_DELAYED_WORK(&tb_dev->tb_work, NULL))   *)
(* and no input handler for activity events (inp_handler is declared and   *)
(* never filled in).  Evaluate, OnTimerFired and NotifyActivity are        *)
(* therefore taken from the design document, sections 4.2 to 4.5, and are  *)
(* marked as such where they are defined.                                  *)
(*                                                                         *)
(* The module also holds the platform driver of the same file              *)
(* (appletb_platform_probe, appletb_platform_remove, appletb_free_device)  *)
(* and the user-space daemon third_party/tiny-dfr/tiny-dfr.c.              *)
(***************************************************************************)
EXTENDS Integers, Sequences, FiniteSets, TLC

VARIABLES
    active,            \* tb_dev->active
    fn_mode,           \* tb_dev->fn_mode
    idle_timeout,      \* tb_dev->idle_timeout
    dim_timeout,       \* tb_dev->dim_timeout
    tb_mode,           \* tb_dev->tb_mode
    tb_mode_valid,     \* tb_dev->tb_mode_valid
    tb_last_activity,  \* tb_dev->tb_last_activity
    tb_live,           \* ActivityRecord's liveness flag (design document 3)
    tb_work,           \* tb_dev->tb_work: [pending, deadline]
    tb_lock,           \* tb_dev->tb_lock: "free" or the context holding it
    now,               \* the clock, in seconds
    hid,               \* HID core: binding state of each hid device
    pc,                \* position of each calling context inside a handler
    loc,               \* the handler's local variables of each context
    ev,                \* one call of Evaluate: its arguments and its result
    last,              \* the last sysfs call that returned: [op, arg, rc, out]
    tb_dev,            \* the kzalloc'ed struct appletb_device: none, live, freed
    registered,        \* appletb_hid_driver is registered with the iBridge
    drvdata,           \* platform_set_drvdata(pdev, tb_dev) has been done
    attr_group,        \* appletb_attr_group is exposed in sysfs
    ppc,               \* position of the driver core in platform probe/remove
    prc,               \* the last platform call that returned: [op, rc, cancelled]
    work_running,      \* the work function of tb_work is executing
    running,           \* tiny-dfr: static volatile sig_atomic_t running
    touchbar_fd,       \* tiny-dfr main: int touchbar_fd
    last_discovery,    \* tiny-dfr main: time_t last_discovery
    wall,              \* tiny-dfr: what time(NULL) returns, in seconds
    dpc,               \* tiny-dfr: position of the main thread
    dloc,              \* tiny-dfr: locals of main and find_touchbar_device
    open_fds,          \* tiny-dfr: descriptors the process holds open
    dexit,             \* tiny-dfr: exit status of main, -1 while it runs
    dobs               \* tiny-dfr: what has been observed of the run so far

cfgvars  == <<fn_mode, idle_timeout, dim_timeout>>
modevars == <<tb_mode, tb_mode_valid, tb_last_activity, tb_live>>
concvars == <<tb_lock, pc, loc, ev>>
platvars == <<tb_dev, registered, drvdata, attr_group, ppc, prc, work_running>>
dfrvars  == <<running, touchbar_fd, last_discovery, wall, dpc, dloc, open_fds,
              dexit, dobs>>
vars == <<active, fn_mode, idle_timeout, dim_timeout, tb_mode, tb_mode_valid,
          tb_last_activity, tb_live, tb_work, tb_lock, now, hid, pc, loc, ev,
          last, tb_dev, registered, drvdata, attr_group, ppc, prc,
          work_running, running, touchbar_fd, last_discovery, wall, dpc, dloc,
          open_fds, dexit, dobs>>

(***************************************************************************)
(* Bounds of the model.                                                    *)
(***************************************************************************)
MaxTime == 4
MaxLen == 2
MaxTimeout == 3
MaxWall == 11
MaxPaths == 2
MaxCount == 2

(***************************************************************************)
(* Program constants.                                                      *)
(***************************************************************************)
APPLETB_FN_MODE_NORM == 0
APPLETB_FN_MODE_FKEYS == 1
APPLETB_FN_MODE_MAX == APPLETB_FN_MODE_FKEYS
EINVAL == 22
ENOMEM == 12
ENODEV == 19

\* The two HID interfaces of the iBridge that share one appletb_device.
HDevs == {"mode_info", "disp_info"}

\* Contexts that call into the driver concurrently: the HID core (one per
\* hid device; the core is taken to run one callback at a time) and two
\* processes writing sysfs attributes.
Writers == {"w1", "w2"}
Contexts == HDevs \cup Writers

(***************************************************************************)
(* Display modes (design document 3, Mode).                                *)
(***************************************************************************)
ModeActive == 0
ModeDimmed == 1
ModeIdle == 2
Modes == {ModeActive, ModeDimmed, ModeIdle}

(***************************************************************************)
(* sscanf(buf, "%u", &v) and snprintf(buf, PAGE_SIZE, "%u\n", v).          *)
(* A buffer is a sequence of one-character strings.  The kernel's vsscanf  *)
(* skips leading white space, then wants a decimal digit (a sign is only   *)
(* taken for signed conversions), reads digits up to the first other       *)
(* character and stores the number as an unsigned int.  A buffer of up to   *)
(* MaxLen characters never reaches UINT_MAX, so no truncation takes place. *)
(***************************************************************************)
Alphabet == {"-", "1", "x", "\n"}
DigitChars == {"0", "1", "2", "3", "4", "5", "6", "7", "8", "9"}
SpaceChars == {" ", "\n"}

DigitVal(c) ==
    CASE c = "0" -> 0 [] c = "1" -> 1 [] c = "2" -> 2 [] c = "3" -> 3
      [] c = "4" -> 4 [] c = "5" -> 5 [] c = "6" -> 6 [] c = "7" -> 7
      [] c = "8" -> 8 [] c = "9" -> 9

DigitChar(d) ==
    CASE d = 0 -> "0" [] d = 1 -> "1" [] d = 2 -> "2" [] d = 3 -> "3"
      [] d = 4 -> "4" [] d = 5 -> "5" [] d = 6 -> "6" [] d = 7 -> "7"
      [] d = 8 -> "8" [] d = 9 -> "9"

RECURSIVE SkipSpaces(_)
SkipSpaces(s) ==
    IF s # <<>> /\ Head(s) \in SpaceChars THEN SkipSpaces(Tail(s)) ELSE s

RECURSIVE ReadDigits(_, _)
ReadDigits(s, acc) ==
    IF s # <<>> /\ Head(s) \in DigitChars
    THEN ReadDigits(Tail(s), acc * 10 + DigitVal(Head(s)))
    ELSE acc

\* A faulty variant: a conversion that steps over a leading sign, as a
\* signed conversion does, and reads the digits behind it.
ScanfU_signed(buf) ==
    LET s == SkipSpaces(buf)
        d == IF s # <<>> /\ Head(s) = "-" THEN Tail(s) ELSE s IN
    IF d = <<>> \/ Head(d) \notin DigitChars
    THEN [n |-> 0, val |-> 0]
    ELSE [n |-> 1, val |-> ReadDigits(d, 0)]

\* Number of conversions and the converted value.
ScanfU(buf) ==
    LET s == SkipSpaces(buf) IN
    IF s = <<>> \/ Head(s) \notin DigitChars
    THEN [n |-> 0, val |-> 0]
    ELSE [n |-> 1, val |-> ReadDigits(s, 0)]

RECURSIVE FormatDigits(_)
FormatDigits(v) ==
    IF v < 10 THEN <<DigitChar(v)>>
    ELSE Append(FormatDigits(v \div 10), DigitChar(v % 10))

PrintfU(v) == Append(FormatDigits(v), "\n")

RECURSIVE SeqsUpTo(_, _)
SeqsUpTo(S, n) ==
    IF n = 0 THEN {<<>>}
    ELSE LET shorter == SeqsUpTo(S, n - 1) IN
         shorter \cup {Append(s, c) : s \in {t \in shorter : Len(t) = n - 1}, c \in S}

\* What a process may write to an attribute file: every buffer of up to
\* MaxLen characters of the alphabet, and the numbers 0 and 2.
Bufs == SeqsUpTo(Alphabet, MaxLen) \cup {<<"0">>, <<"2">>, <<"0", "\n">>}

\* Writes used while the controller runs: plain small numbers.
CtlBufs == {<<"0">>, <<"1">>, <<"2">>}

(***************************************************************************)
(* Device state after appletb_alloc_device (kzalloc: every field zero) and *)
(* a successful appletb_platform_probe.                                    *)
(***************************************************************************)
NoWork == [pending |-> FALSE, deadline |-> 0]
NoCall == [op |-> "none", arg |-> <<>>, rc |-> 0, out |-> <<>>]
NoLocals == [val |-> 0, buf |-> <<>>]
NoResult == [mode |-> 0, armed |-> FALSE, delay |-> 0]
NoEval == [applied |-> FALSE, mode |-> 0, t |-> 0, idle |-> 0, dim |-> 0,
           live |-> FALSE, res |-> NoResult]

DevInit ==
    /\ active = FALSE
    /\ fn_mode = 0
    /\ idle_timeout = 0
    /\ dim_timeout = 0
    /\ tb_mode = 0
    /\ tb_mode_valid = FALSE
    /\ tb_last_activity = 0
    /\ tb_live = FALSE
    /\ tb_work = NoWork
    /\ tb_lock = "free"
    /\ now = 0
    /\ hid = [h \in HDevs |-> "unbound"]
    /\ pc = [c \in Contexts |-> "idle"]
    /\ loc = [c \in Contexts |-> NoLocals]
    /\ last = NoCall

\* The platform side once appletb_platform_probe has returned 0.
NoPlatCall == [op |-> "none", rc |-> 0, cancelled |-> FALSE]
PlatAt(label) == [at |-> label, rc |-> 0, cancelled |-> FALSE]

PlatBound ==
    /\ tb_dev = "live"
    /\ registered = TRUE
    /\ drvdata = TRUE
    /\ attr_group = TRUE
    /\ ppc = PlatAt("bound")
    /\ prc = NoPlatCall
    /\ work_running = FALSE

\* tiny-dfr before main has been entered.
NoDfrLocals == [now |-> 0, i |-> 0, fd |-> -1, found_fd |-> -1, paths |-> <<>>]
NoDfrObs == [ebadf |-> FALSE, iterations |-> 0, attempts |-> 0, prev |-> 0,
             errors |-> 0]

DfrNotStarted ==
    /\ running = 1
    /\ touchbar_fd = -1
    /\ last_discovery = 0
    /\ wall = 0
    /\ dpc = "not_started"
    /\ dloc = NoDfrLocals
    /\ open_fds = {}
    /\ dexit = -1
    /\ dobs = NoDfrObs

Init == DevInit /\ ev = NoEval /\ PlatBound /\ DfrNotStarted

(***************************************************************************)
(* The workqueue primitives the driver calls on tb_work.                   *)
(***************************************************************************)
\* schedule_delayed_work(&tb_dev->tb_work, delay): queues the work unless it
\* is already pending, in which case the pending one is left as it is.
schedule_delayed_work(w, delay) ==
    IF w.pending THEN w ELSE [pending |-> TRUE, deadline |-> now + delay]

\* cancel_delayed_work_sync(&tb_dev->tb_work): nothing is pending afterwards.
cancel_delayed_work_sync(w) == NoWork

(***************************************************************************)
(* HID driver callbacks.  The HID core calls probe on an unbound device,   *)
(* remove and suspend on a bound one, reset_resume on a suspended one.     *)
(***************************************************************************)
\* A faulty variant: a probe without the early return for an active
\* controller, which queues the work on every call.
appletb_probe_rearm(h) ==
    /\ \A d \in HDevs : pc[d] = "idle"
    /\ hid[h] = "unbound"
    /\ hid' = [hid EXCEPT ![h] = "bound"]
    /\ active' = TRUE
    /\ tb_work' = [pending |-> TRUE, deadline |-> now]
    /\ UNCHANGED <<cfgvars, modevars, concvars, now, last, platvars, dfrvars>>

appletb_probe(h) ==
    /\ \A d \in HDevs : pc[d] = "idle"
    /\ hid[h] = "unbound"
    /\ hid' = [hid EXCEPT ![h] = "bound"]
    /\ IF active THEN UNCHANGED active ELSE active' = TRUE
    /\ UNCHANGED <<cfgvars, modevars, tb_work, concvars, now, last, platvars, dfrvars>>

appletb_remove(h) ==
    /\ \A d \in HDevs : pc[d] = "idle"
    /\ hid[h] = "bound"
    /\ hid' = [hid EXCEPT ![h] = "unbound"]
    /\ active' = FALSE
    /\ UNCHANGED <<cfgvars, modevars, tb_work, concvars, now, last, platvars, dfrvars>>

appletb_suspend(h) ==
    /\ \A d \in HDevs : pc[d] = "idle"
    /\ hid[h] = "bound"
    /\ hid' = [hid EXCEPT ![h] = "suspended"]
    /\ tb_work' = cancel_delayed_work_sync(tb_work)
    /\ UNCHANGED <<active, cfgvars, modevars, concvars, now, last, platvars, dfrvars>>

appletb_reset_resume(h) ==
    /\ \A d \in HDevs : pc[d] = "idle"
    /\ hid[h] = "suspended"
    /\ hid' = [hid EXCEPT ![h] = "bound"]
    /\ tb_work' = schedule_delayed_work(tb_work, 0)
    /\ UNCHANGED <<active, cfgvars, modevars, concvars, now, last, platvars, dfrvars>>

(***************************************************************************)
(* sysfs attributes.  A store returns size (the length of the buffer) or   *)
(* -EINVAL; a show returns the number of characters it printed.            *)
(***************************************************************************)
Returned(op, arg, rc, out) == [op |-> op, arg |-> arg, rc |-> rc, out |-> out]

idle_timeout_show ==
    /\ last' = Returned("idle_timeout_show", <<>>, Len(PrintfU(idle_timeout)),
                        PrintfU(idle_timeout))
    /\ UNCHANGED <<active, cfgvars, modevars, tb_work, concvars, now, hid,
                   platvars, dfrvars>>

idle_timeout_store(buf) ==
    /\ IF ScanfU(buf).n # 1
       THEN /\ last' = Returned("idle_timeout_store", buf, -EINVAL, <<>>)
            /\ UNCHANGED idle_timeout
       ELSE /\ idle_timeout' = ScanfU(buf).val
            /\ last' = Returned("idle_timeout_store", buf, Len(buf), <<>>)
    /\ UNCHANGED <<active, fn_mode, dim_timeout, modevars, tb_work, concvars,
                   now, hid, platvars, dfrvars>>

\* A faulty variant: a show of dim_timeout that prints the idle timeout.
dim_timeout_show_idle ==
    /\ last' = Returned("dim_timeout_show", <<>>, Len(PrintfU(idle_timeout)),
                        PrintfU(idle_timeout))
    /\ UNCHANGED <<active, cfgvars, modevars, tb_work, concvars, now, hid,
                   platvars, dfrvars>>

dim_timeout_show ==
    /\ last' = Returned("dim_timeout_show", <<>>, Len(PrintfU(dim_timeout)),
                        PrintfU(dim_timeout))
    /\ UNCHANGED <<active, cfgvars, modevars, tb_work, concvars, now, hid,
                   platvars, dfrvars>>

dim_timeout_store(buf) ==
    /\ IF ScanfU(buf).n # 1
       THEN /\ last' = Returned("dim_timeout_store", buf, -EINVAL, <<>>)
            /\ UNCHANGED dim_timeout
       ELSE /\ dim_timeout' = ScanfU(buf).val
            /\ last' = Returned("dim_timeout_store", buf, Len(buf), <<>>)
    /\ UNCHANGED <<active, fn_mode, idle_timeout, modevars, tb_work, concvars,
                   now, hid, platvars, dfrvars>>

fnmode_show ==
    /\ last' = Returned("fnmode_show", <<>>, Len(PrintfU(fn_mode)), PrintfU(fn_mode))
    /\ UNCHANGED <<active, cfgvars, modevars, tb_work, concvars, now, hid,
                   platvars, dfrvars>>

\* A faulty variant: a store without the range check.
fnmode_store_unchecked(buf) ==
    /\ IF ScanfU(buf).n # 1
       THEN /\ last' = Returned("fnmode_store", buf, -EINVAL, <<>>)
            /\ UNCHANGED fn_mode
       ELSE /\ fn_mode' = ScanfU(buf).val
            /\ last' = Returned("fnmode_store", buf, Len(buf), <<>>)
    /\ UNCHANGED <<active, idle_timeout, dim_timeout, modevars, tb_work,
                   concvars, now, hid, platvars, dfrvars>>

fnmode_store(buf) ==
    /\ IF ScanfU(buf).n # 1 \/ ScanfU(buf).val > APPLETB_FN_MODE_MAX
       THEN /\ last' = Returned("fnmode_store", buf, -EINVAL, <<>>)
            /\ UNCHANGED fn_mode
       ELSE /\ fn_mode' = ScanfU(buf).val
            /\ last' = Returned("fnmode_store", buf, Len(buf), <<>>)
    /\ UNCHANGED <<active, idle_timeout, dim_timeout, modevars, tb_work,
                   concvars, now, hid, platvars, dfrvars>>

(***************************************************************************)
(* The mode state machine and the two handlers the source does not hold,   *)
(* from the design document.                                               *)
(***************************************************************************)
\* A faulty variant: strict comparisons at both boundaries.
Evaluate_strict(current_mode, t, idle, dim, live) ==
    LET since == IF live THEN t ELSE idle IN
    IF since > idle THEN [mode |-> ModeIdle, armed |-> FALSE, delay |-> 0]
    ELSE IF since > dim
         THEN [mode |-> ModeDimmed, armed |-> TRUE, delay |-> idle - since]
         ELSE [mode |-> ModeActive, armed |-> TRUE, delay |-> dim - since]

\* 4.3: Evaluate(current_mode, time_since_activity, config), with the
\* liveness flag of the activity record.  The deadline is relative.
Evaluate(current_mode, t, idle, dim, live) ==
    LET since == IF live THEN t ELSE idle IN
    IF since >= idle THEN [mode |-> ModeIdle, armed |-> FALSE, delay |-> 0]
    ELSE IF since >= dim
         THEN [mode |-> ModeDimmed, armed |-> TRUE, delay |-> idle - since]
         ELSE [mode |-> ModeActive, armed |-> TRUE, delay |-> dim - since]

\* 4.4: Arm(deadline, callback) replaces the prior schedule.
Arm(deadline) == [pending |-> TRUE, deadline |-> deadline]

\* 4.2: RecordActivity(timestamp).
RecordActivity(ts) == IF tb_last_activity > ts THEN tb_last_activity ELSE ts

\* A faulty variant: the activity queues the task with the primitive that
\* leaves a pending task alone.
NotifyActivity_no_replace(ts) ==
    /\ IF active
       THEN /\ tb_last_activity' = RecordActivity(ts)
            /\ tb_live' = TRUE
            /\ tb_mode' = ModeActive
            /\ tb_mode_valid' = TRUE
            /\ tb_work' = IF tb_work.pending THEN tb_work
                          ELSE [pending |-> TRUE, deadline |-> ts + dim_timeout]
       ELSE UNCHANGED <<modevars, tb_work>>
    /\ UNCHANGED <<active, cfgvars, concvars, now, hid, last, platvars, dfrvars>>

\* 4.5: NotifyActivity(timestamp).
NotifyActivity(ts) ==
    /\ IF active
       THEN /\ tb_last_activity' = RecordActivity(ts)
            /\ tb_live' = TRUE
            /\ tb_mode' = ModeActive
            /\ tb_mode_valid' = TRUE
            /\ tb_work' = Arm(ts + dim_timeout)
       ELSE UNCHANGED <<modevars, tb_work>>
    /\ UNCHANGED <<active, cfgvars, concvars, now, hid, last, platvars, dfrvars>>

\* 4.5: OnTimerFired(), run by the workqueue once tb_work is due.  The work
\* stops being pending when it starts to run.
OnTimerFired ==
    /\ tb_work.pending
    /\ now >= tb_work.deadline
    /\ IF active
       THEN LET r == Evaluate(tb_mode, now - tb_last_activity, idle_timeout,
                              dim_timeout, tb_live) IN
            /\ tb_mode' = r.mode
            /\ tb_mode_valid' = TRUE
            /\ tb_work' = IF r.armed THEN Arm(now + r.delay) ELSE NoWork
            /\ UNCHANGED <<tb_last_activity, tb_live>>
       ELSE /\ tb_work' = NoWork
            /\ UNCHANGED modevars
    /\ UNCHANGED <<active, cfgvars, concvars, now, hid, last, platvars, dfrvars>>

\* One second passes.
Tick ==
    /\ now < MaxTime
    /\ now' = now + 1
    /\ UNCHANGED <<active, cfgvars, modevars, tb_work, concvars, hid, last,
                   platvars, dfrvars>>

Next ==
    \/ \E h \in HDevs : appletb_probe(h)
    \/ \E h \in HDevs : appletb_remove(h)
    \/ \E h \in HDevs : appletb_suspend(h)
    \/ \E h \in HDevs : appletb_reset_resume(h)
    \/ \E buf \in CtlBufs : idle_timeout_store(buf)
    \/ \E buf \in CtlBufs : dim_timeout_store(buf)
    \/ \E ts \in 0..now : NotifyActivity(ts)
    \/ OnTimerFired
    \/ Tick

Spec == Init /\ [][Next]_vars

TypeOK ==
    /\ active \in BOOLEAN
    /\ fn_mode \in Nat /\ idle_timeout \in Nat /\ dim_timeout \in Nat
    /\ tb_mode \in Modes
    /\ tb_mode_valid \in BOOLEAN /\ tb_live \in BOOLEAN
    /\ tb_last_activity \in 0..MaxTime
    /\ tb_work.pending \in BOOLEAN /\ tb_work.deadline \in Nat
    /\ now \in 0..MaxTime

(***************************************************************************)
(* Evaluate on its own: every argument drawn from the bounded ranges, one  *)
(* call.                                                                   *)
(***************************************************************************)
InitEval ==
    /\ DevInit
    /\ ev \in {[applied |-> FALSE, mode |-> m, t |-> t, idle |-> i, dim |-> d,
                live |-> l, res |-> NoResult] :
               m \in Modes, t \in 0..MaxTime, i \in 0..MaxTimeout,
               d \in 0..MaxTimeout, l \in BOOLEAN}
    /\ PlatBound
    /\ DfrNotStarted

EvaluateCall ==
    /\ ~ev.applied
    /\ ev' = [ev EXCEPT !.applied = TRUE,
                        !.res = Evaluate(ev.mode, ev.t, ev.idle, ev.dim, ev.live)]
    /\ UNCHANGED <<active, cfgvars, modevars, tb_work, tb_lock, pc, loc, now,
                   hid, last, platvars, dfrvars>>

SpecEval == InitEval /\ [][EvaluateCall]_vars

(***************************************************************************)
(* The handlers statement by statement, for the interleavings of the       *)
(* calling contexts.  A context's pc names the source line whose access to *)
(* the device state it is about to make; "idle" is outside any handler.    *)
(* No handler of the source takes tb_lock: it is initialised in            *)
(* appletb_alloc_device and stays free.                                    *)
(***************************************************************************)
Attrs == {"idle_timeout", "dim_timeout", "fnmode"}
ConcBufs == {<<"0">>, <<"1">>, <<"x">>}

Goto(c, label) == pc' = [pc EXCEPT ![c] = label]

\* The HID core runs one callback of the driver at a time.
HidIdle == \A h \in HDevs : pc[h] = "idle"

\* appletb_probe, entered: tb_dev fetched, line 204 is next.
probe_call(h) ==
    /\ HidIdle
    /\ hid[h] = "unbound"
    /\ Goto(h, "probe_204")
    /\ UNCHANGED <<active, cfgvars, modevars, tb_work, tb_lock, loc, ev, now,
                   hid, last, platvars, dfrvars>>

\* line 204: if (tb_dev->active) return 0;
probe_204(h) ==
    /\ pc[h] = "probe_204"
    /\ IF active
       THEN Goto(h, "idle") /\ hid' = [hid EXCEPT ![h] = "bound"]
       ELSE Goto(h, "probe_207") /\ UNCHANGED hid
    /\ UNCHANGED <<active, cfgvars, modevars, tb_work, tb_lock, loc, ev, now,
                   last, platvars, dfrvars>>

\* line 207: tb_dev->active = true; return 0;
probe_207(h) ==
    /\ pc[h] = "probe_207"
    /\ active' = TRUE
    /\ Goto(h, "idle")
    /\ hid' = [hid EXCEPT ![h] = "bound"]
    /\ UNCHANGED <<cfgvars, modevars, tb_work, tb_lock, loc, ev, now, last,
                   platvars, dfrvars>>

\* appletb_remove, entered: line 220 is next.
remove_call(h) ==
    /\ HidIdle
    /\ hid[h] = "bound"
    /\ Goto(h, "remove_220")
    /\ UNCHANGED <<active, cfgvars, modevars, tb_work, tb_lock, loc, ev, now,
                   hid, last, platvars, dfrvars>>

\* line 220: tb_dev->active = false;
remove_220(h) ==
    /\ pc[h] = "remove_220"
    /\ active' = FALSE
    /\ Goto(h, "idle")
    /\ hid' = [hid EXCEPT ![h] = "unbound"]
    /\ UNCHANGED <<cfgvars, modevars, tb_work, tb_lock, loc, ev, now, last,
                   platvars, dfrvars>>

\* A store, entered: sscanf into the local variable (lines 126, 150, 172),
\* -EINVAL at once if that fails, else the assignment is next.
store_call(w, attr, buf) ==
    /\ pc[w] = "idle"
    /\ IF \/ ScanfU(buf).n # 1
          \/ attr = "fnmode" /\ ScanfU(buf).val > APPLETB_FN_MODE_MAX
       THEN /\ last' = Returned(attr, buf, -EINVAL, <<>>)
            /\ UNCHANGED <<pc, loc>>
       ELSE /\ Goto(w, attr)
            /\ loc' = [loc EXCEPT ![w] = [val |-> ScanfU(buf).val, buf |-> buf]]
            /\ UNCHANGED last
    /\ UNCHANGED <<active, cfgvars, modevars, tb_work, tb_lock, ev, now, hid,
                   platvars, dfrvars>>

\* lines 129, 153, 176: tb_dev-><attr> = <local>; return size;
store_write(w) ==
    /\ pc[w] \in Attrs
    /\ idle_timeout' = IF pc[w] = "idle_timeout" THEN loc[w].val ELSE idle_timeout
    /\ dim_timeout' = IF pc[w] = "dim_timeout" THEN loc[w].val ELSE dim_timeout
    /\ fn_mode' = IF pc[w] = "fnmode" THEN loc[w].val ELSE fn_mode
    /\ last' = Returned(pc[w], loc[w].buf, Len(loc[w].buf), <<>>)
    /\ loc' = [loc EXCEPT ![w] = NoLocals]
    /\ Goto(w, "idle")
    /\ UNCHANGED <<active, modevars, tb_work, tb_lock, ev, now, hid,
                   platvars, dfrvars>>

NextConc ==
    \/ \E h \in HDevs : probe_call(h)
    \/ \E h \in HDevs : probe_204(h)
    \/ \E h \in HDevs : probe_207(h)
    \/ \E h \in HDevs : remove_call(h)
    \/ \E h \in HDevs : remove_220(h)
    \/ \E h \in HDevs : appletb_suspend(h)
    \/ \E h \in HDevs : appletb_reset_resume(h)
    \/ \E w \in Writers, attr \in Attrs, buf \in ConcBufs : store_call(w, attr, buf)
    \/ \E w \in Writers : store_write(w)

SpecConc == Init /\ [][NextConc]_vars

(***************************************************************************)
(* The attribute files on their own: any buffer of up to MaxLen            *)
(* characters written, any attribute read.                                 *)
(***************************************************************************)
NextCfg ==
    \/ \E buf \in Bufs : idle_timeout_store(buf)
    \/ \E buf \in Bufs : dim_timeout_store(buf)
    \/ \E buf \in Bufs : fnmode_store(buf)
    \/ idle_timeout_show
    \/ dim_timeout_show
    \/ fnmode_show

SpecCfg == Init /\ [][NextCfg]_vars

(***************************************************************************)
(* The platform driver: appletb_platform_probe and appletb_platform_remove *)
(* statement by statement, called by the driver core one at a time, with   *)
(* the HID callbacks and the workqueue running in between.  The iBridge    *)
(* calls a HID callback only while appletb_hid_driver is registered, and   *)
(* appleib_unregister_hid_driver returns once none is in flight.  The      *)
(* driver core unbinds the device and clears its driver data whatever      *)
(* appletb_platform_remove returns.                                        *)
(***************************************************************************)
HidErrs == {-ENODEV, -EINVAL}

PlatReturned(op, rc, cancelled) == [op |-> op, rc |-> rc, cancelled |-> cancelled]

devfields == <<active, cfgvars, modevars, tb_work>>

\* appletb_alloc_device, kzalloc succeeded: every field zero, the lock and
\* the work initialised.
appletb_alloc_device ==
    /\ active' = FALSE
    /\ fn_mode' = 0 /\ idle_timeout' = 0 /\ dim_timeout' = 0
    /\ tb_mode' = 0 /\ tb_mode_valid' = FALSE
    /\ tb_last_activity' = 0 /\ tb_live' = FALSE
    /\ tb_work' = NoWork
    /\ tb_dev' = "live"

\* lines 307-309: tb_dev = appletb_alloc_device(); if (!tb_dev) return -ENOMEM;
platform_probe_307 ==
    /\ ppc.at = "unbound"
    /\ \/ /\ appletb_alloc_device
          /\ ppc' = PlatAt("probe_311")
          /\ UNCHANGED prc
       \/ /\ prc' = PlatReturned("platform_probe", -ENOMEM, FALSE)
          /\ UNCHANGED <<devfields, tb_dev, ppc>>
    /\ UNCHANGED <<registered, drvdata, attr_group, work_running, concvars, now,
                   hid, last, dfrvars>>

\* lines 311-313: rc = appleib_register_hid_driver(...); if (rc) goto error;
platform_probe_311 ==
    /\ ppc.at = "probe_311"
    /\ \/ /\ registered' = TRUE
          /\ ppc' = PlatAt("probe_315")
       \/ \E rc \in HidErrs :
            /\ ppc' = [PlatAt("probe_296") EXCEPT !.rc = rc]
            /\ UNCHANGED registered
    /\ UNCHANGED <<devfields, tb_dev, drvdata, attr_group, prc, work_running,
                   concvars, now, hid, last, dfrvars>>

\* line 315: platform_set_drvdata(pdev, tb_dev);
platform_probe_315 ==
    /\ ppc.at = "probe_315"
    /\ drvdata' = TRUE
    /\ ppc' = PlatAt("probe_317")
    /\ UNCHANGED <<devfields, tb_dev, registered, attr_group, prc, work_running,
                   concvars, now, hid, last, dfrvars>>

\* lines 317-319: sysfs_create_group(...), its result not looked at; return 0;
platform_probe_317 ==
    /\ ppc.at = "probe_317"
    /\ attr_group' \in BOOLEAN
    /\ ppc' = PlatAt("bound")
    /\ prc' = PlatReturned("platform_probe", 0, FALSE)
    /\ UNCHANGED <<devfields, tb_dev, registered, drvdata, work_running,
                   concvars, now, hid, last, dfrvars>>

\* line 333: sysfs_remove_group(...);
platform_remove_333 ==
    /\ ppc.at = "bound"
    /\ attr_group' = FALSE
    /\ ppc' = PlatAt("remove_335")
    /\ UNCHANGED <<devfields, tb_dev, registered, drvdata, prc, work_running,
                   concvars, now, hid, last, dfrvars>>

\* A faulty variant: the error path of appletb_platform_remove frees the
\* device as the success path does.
platform_remove_335_frees ==
    /\ ppc.at = "remove_335"
    /\ \/ /\ registered' = FALSE
          /\ hid' = [h \in HDevs |-> "unbound"]
          /\ ppc' = PlatAt("remove_296")
       \/ \E rc \in HidErrs :
            /\ ppc' = [PlatAt("remove_296") EXCEPT !.rc = rc]
            /\ UNCHANGED <<registered, hid>>
    /\ UNCHANGED <<devfields, tb_dev, drvdata, attr_group, prc, work_running,
                   concvars, now, last, dfrvars>>

\* lines 335-337, 343-344: rc = appleib_unregister_hid_driver(...);
\* if (rc) goto error; ... error: return rc;
platform_remove_335 ==
    /\ ppc.at = "remove_335"
    /\ \/ /\ registered' = FALSE
          /\ hid' = [h \in HDevs |-> "unbound"]
          /\ ppc' = PlatAt("remove_296")
          /\ UNCHANGED <<prc, drvdata>>
       \/ \E rc \in HidErrs :
            /\ ppc' = PlatAt("remove_failed")
            /\ prc' = PlatReturned("platform_remove", rc, FALSE)
            /\ drvdata' = FALSE
            /\ UNCHANGED <<registered, hid>>
    /\ UNCHANGED <<devfields, tb_dev, attr_group, work_running, concvars, now,
                   last, dfrvars>>

\* A faulty variant: appletb_free_device without the cancellation.
appletb_free_device_nocancel ==
    /\ ppc.at \in {"probe_296", "remove_296"}
    /\ ppc' = [ppc EXCEPT !.at = IF ppc.at = "probe_296" THEN "probe_297"
                                 ELSE "remove_297"]
    /\ UNCHANGED <<devfields, tb_dev, registered, drvdata, attr_group, prc,
                   work_running, concvars, now, hid, last, dfrvars>>

\* line 296: cancel_delayed_work_sync(&tb_dev->tb_work); it returns once the
\* work is neither pending nor executing.
appletb_free_device_296 ==
    /\ ppc.at \in {"probe_296", "remove_296"}
    /\ ~work_running
    /\ tb_work' = cancel_delayed_work_sync(tb_work)
    /\ ppc' = [ppc EXCEPT !.at = IF ppc.at = "probe_296" THEN "probe_297"
                                 ELSE "remove_297",
                          !.cancelled = tb_work.pending]
    /\ UNCHANGED <<active, cfgvars, modevars, tb_dev, registered, drvdata,
                   attr_group, prc, work_running, concvars, now, hid, last,
                   dfrvars>>

\* A faulty variant: the error path of appletb_platform_probe returns rc
\* without freeing what it allocated.
appletb_free_device_297_leak ==
    /\ ppc.at \in {"probe_297", "remove_297"}
    /\ tb_dev' = IF ppc.at = "probe_297" THEN tb_dev ELSE "freed"
    /\ prc' = PlatReturned(IF ppc.at = "probe_297" THEN "platform_probe"
                           ELSE "platform_remove", ppc.rc, ppc.cancelled)
    /\ drvdata' = FALSE
    /\ ppc' = PlatAt("unbound")
    /\ UNCHANGED <<devfields, registered, attr_group, work_running, concvars,
                   now, hid, last, dfrvars>>

\* line 297: kfree(tb_dev); then return rc (line 323) or return 0 (line 341).
appletb_free_device_297 ==
    /\ ppc.at \in {"probe_297", "remove_297"}
    /\ tb_dev' = "freed"
    /\ prc' = PlatReturned(IF ppc.at = "probe_297" THEN "platform_probe"
                           ELSE "platform_remove", ppc.rc, ppc.cancelled)
    /\ drvdata' = FALSE
    /\ ppc' = PlatAt("unbound")
    /\ UNCHANGED <<devfields, registered, attr_group, work_running, concvars,
                   now, hid, last, dfrvars>>

\* The workqueue takes tb_work once it is due: it stops being pending and
\* its function starts to execute.
work_begin ==
    /\ tb_work.pending
    /\ now >= tb_work.deadline
    /\ ~work_running
    /\ tb_work' = NoWork
    /\ work_running' = TRUE
    /\ UNCHANGED <<active, cfgvars, modevars, tb_dev, registered, drvdata,
                   attr_group, ppc, prc, concvars, now, hid, last, dfrvars>>

\* The function of tb_work returns.
work_end ==
    /\ work_running
    /\ work_running' = FALSE
    /\ UNCHANGED <<devfields, tb_dev, registered, drvdata, attr_group, ppc, prc,
                   concvars, now, hid, last, dfrvars>>

\* A HID callback, called by the iBridge while the driver is registered.
hid_callback(h) ==
    /\ registered
    /\ \/ appletb_probe(h)
       \/ appletb_remove(h)
       \/ appletb_suspend(h)
       \/ appletb_reset_resume(h)

\* A write to the idle_timeout file while the attribute group is exposed.
attr_write(buf) == attr_group /\ idle_timeout_store(buf)

InitPlat ==
    /\ DevInit
    /\ ev = NoEval
    /\ tb_dev = "none"
    /\ registered = FALSE
    /\ drvdata = FALSE
    /\ attr_group = FALSE
    /\ ppc = PlatAt("unbound")
    /\ prc = NoPlatCall
    /\ work_running = FALSE
    /\ DfrNotStarted

NextPlat ==
    \/ platform_probe_307
    \/ platform_probe_311
    \/ platform_probe_315
    \/ platform_probe_317
    \/ platform_remove_333
    \/ platform_remove_335
    \/ appletb_free_device_296
    \/ appletb_free_device_297
    \/ work_begin
    \/ work_end
    \/ \E h \in HDevs : hid_callback(h)
    \/ \E buf \in CtlBufs : attr_write(buf)

SpecPlat == InitPlat /\ [][NextPlat]_vars

(***************************************************************************)
(* The daemon, third_party/tiny-dfr/tiny-dfr.c: the main loop of main,     *)
(* find_touchbar_device, handle_touchbar_events and signal_handler.  dpc   *)
(* names the source line the main thread is at; at a position named log_n  *)
(* it is inside the syslog call of line n.  The options are taken as       *)
(* parsed and daemon() as having succeeded; verbose is 0.  time(NULL)      *)
(* never goes back.                                                        *)
(***************************************************************************)
DISCOVERY_INTERVAL == 5
StartWall == DISCOVERY_INTERVAL

\* What a path of /dev/hidraw* turns out to be: open fails, the ioctl
\* fails, some other device, the Apple T1.
PathKinds == {"noopen", "noioctl", "other", "t1"}
Globs == SeqsUpTo(PathKinds, MaxPaths)

\* Descriptor numbers open may return: the lowest one not in use, from 3.
FDs == 3..(3 + MaxPaths)
LowestFree == CHOOSE fd \in FDs : fd \notin open_fds /\ \A g \in FDs : g < fd => g \in open_fds

Min(a, b) == IF a < b THEN a ELSE b

\* Positions at which the main thread is inside syslog.
SyslogPcs == {"log_70", "log_164", "log_237", "log_247", "log_258"}

drvvars == <<active, cfgvars, modevars, tb_work, concvars, now, hid, last,
             platvars>>

\* close(fd): EBADF is noted if fd is not open.
Closed(fd) ==
    /\ open_fds' = open_fds \ {fd}
    /\ dobs' = [dobs EXCEPT !.ebadf = @ \/ fd \notin open_fds]

\* line 226: while (running)
dfr_while_226 ==
    /\ dpc = "while_226"
    /\ IF running = 1
       THEN /\ dpc' = "if_228"
            /\ dobs' = [dobs EXCEPT !.iterations = Min(@ + 1, MaxCount)]
       ELSE /\ dpc' = "end_254"
            /\ UNCHANGED dobs
    /\ UNCHANGED <<running, touchbar_fd, last_discovery, wall, dloc, open_fds,
                   dexit, drvvars>>

\* line 228: if (touchbar_fd < 0)
dfr_if_228 ==
    /\ dpc = "if_228"
    /\ dpc' = IF touchbar_fd < 0 THEN "time_229" ELSE "poll_135"
    /\ UNCHANGED <<running, touchbar_fd, last_discovery, wall, dloc, open_fds,
                   dexit, dobs, drvvars>>

\* A faulty variant: discovery on every iteration.
dfr_time_229_unpaced ==
    /\ dpc = "time_229"
    /\ dloc' = [dloc EXCEPT !.now = wall]
    /\ dpc' = "find_69"
    /\ dobs' = [dobs EXCEPT !.attempts = Min(@ + 1, MaxCount), !.prev = wall]
    /\ UNCHANGED <<running, touchbar_fd, last_discovery, wall, open_fds, dexit,
                   drvvars>>

\* lines 229-232: now = time(NULL); if (now - last_discovery >= 5)
dfr_time_229 ==
    /\ dpc = "time_229"
    /\ dloc' = [dloc EXCEPT !.now = wall]
    /\ IF wall - last_discovery >= DISCOVERY_INTERVAL
       THEN /\ dpc' = "find_69"
            /\ dobs' = [dobs EXCEPT !.attempts = Min(@ + 1, MaxCount),
                                    !.prev = wall]
       ELSE /\ dpc' = "sleep_241"
            /\ UNCHANGED dobs
    /\ UNCHANGED <<running, touchbar_fd, last_discovery, wall, open_fds, dexit,
                   drvvars>>

\* lines 66-72: glob(HIDRAW_GLOB, ...); on failure syslog and return -1.
dfr_find_69 ==
    /\ dpc = "find_69"
    /\ \/ /\ dpc' = "log_70"
          /\ UNCHANGED dloc
       \/ \E g \in Globs :
            /\ dloc' = [dloc EXCEPT !.paths = g, !.i = 0, !.fd = -1,
                                    !.found_fd = -1]
            /\ dpc' = "find_74"
    /\ UNCHANGED <<running, touchbar_fd, last_discovery, wall, open_fds, dexit,
                   dobs, drvvars>>

\* lines 70-71: syslog(LOG_ERR, ...); return -1;
dfr_log_70 ==
    /\ dpc = "log_70"
    /\ dloc' = [dloc EXCEPT !.found_fd = -1]
    /\ dpc' = "set_233"
    /\ UNCHANGED <<running, touchbar_fd, last_discovery, wall, open_fds, dexit,
                   dobs, drvvars>>

\* lines 74-80, 103-104: the loop test and open(path, ...); a path that
\* does not open is passed over; after the last path globfree and return.
dfr_find_74 ==
    /\ dpc = "find_74"
    /\ IF dloc.i < Len(dloc.paths)
       THEN IF dloc.paths[dloc.i + 1] = "noopen"
            THEN /\ dloc' = [dloc EXCEPT !.i = @ + 1, !.fd = -1]
                 /\ UNCHANGED <<dpc, open_fds>>
            ELSE /\ dloc' = [dloc EXCEPT !.fd = LowestFree]
                 /\ open_fds' = open_fds \cup {LowestFree}
                 /\ dpc' = "find_84"
       ELSE /\ dpc' = "set_233"
            /\ UNCHANGED <<dloc, open_fds>>
    /\ UNCHANGED <<running, touchbar_fd, last_discovery, wall, dexit, dobs,
                   drvvars>>

\* A faulty variant: a device that is not the T1 is passed over without
\* the close of line 100.
dfr_find_84_leak ==
    /\ dpc = "find_84"
    /\ LET kind == dloc.paths[dloc.i + 1] IN
       IF kind = "t1"
       THEN /\ dloc' = [dloc EXCEPT !.found_fd = dloc.fd]
            /\ dpc' = "set_233"
            /\ UNCHANGED <<open_fds, dobs>>
       ELSE /\ IF kind = "noioctl" THEN Closed(dloc.fd)
               ELSE UNCHANGED <<open_fds, dobs>>
            /\ dloc' = [dloc EXCEPT !.i = @ + 1]
            /\ dpc' = "find_74"
    /\ UNCHANGED <<running, touchbar_fd, last_discovery, wall, dexit, drvvars>>

\* lines 83-100: the ioctl, the vendor/product test, found_fd = fd; break;
\* or close(fd) and on to the next path.
dfr_find_84 ==
    /\ dpc = "find_84"
    /\ LET kind == dloc.paths[dloc.i + 1] IN
       IF kind = "t1"
       THEN /\ dloc' = [dloc EXCEPT !.found_fd = dloc.fd]
            /\ dpc' = "set_233"
            /\ UNCHANGED <<open_fds, dobs>>
       ELSE /\ Closed(dloc.fd)
            /\ dloc' = [dloc EXCEPT !.i = @ + 1]
            /\ dpc' = "find_74"
    /\ UNCHANGED <<running, touchbar_fd, last_discovery, wall, dexit, drvvars>>

\* lines 233-239: touchbar_fd = find_touchbar_device(); last_discovery = now;
\* if (touchbar_fd >= 0) syslog(...).
dfr_set_233 ==
    /\ dpc = "set_233"
    /\ touchbar_fd' = dloc.found_fd
    /\ last_discovery' = dloc.now
    /\ dloc' = NoDfrLocals
    /\ dpc' = IF dloc.found_fd >= 0 THEN "log_237" ELSE "sleep_241"
    /\ UNCHANGED <<running, wall, open_fds, dexit, dobs, drvvars>>

\* line 237: syslog(LOG_INFO, "Touch Bar device connected") returns.
dfr_log_237 ==
    /\ dpc = "log_237"
    /\ dpc' = "sleep_241"
    /\ UNCHANGED <<running, touchbar_fd, last_discovery, wall, dloc, open_fds,
                   dexit, dobs, drvvars>>

\* lines 241-242: sleep(1); continue;
dfr_sleep_241 ==
    /\ dpc = "sleep_241"
    /\ \E d \in 1..2 : wall' = Min(wall + d, MaxWall)
    /\ dloc' = NoDfrLocals
    /\ dpc' = "while_226"
    /\ UNCHANGED <<running, touchbar_fd, last_discovery, open_fds, dexit, dobs,
                   drvvars>>

\* lines 128-169, 246: handle_touchbar_events(touchbar_fd): poll for up to
\* 100 ms; 0 on a timeout, on data read and on EAGAIN; -1, after a syslog,
\* on a poll or read error and on POLLERR or POLLHUP.
dfr_poll_135 ==
    /\ dpc = "poll_135"
    /\ \E d \in 0..1 : wall' = Min(wall + d, MaxWall)
    /\ \E ret \in {0, -1} :
         IF ret < 0
         THEN /\ dpc' = "log_164"
              /\ dobs' = [dobs EXCEPT !.errors = Min(@ + 1, MaxCount)]
         ELSE /\ dpc' = "while_226"
              /\ UNCHANGED dobs
    /\ UNCHANGED <<running, touchbar_fd, last_discovery, dloc, open_fds, dexit,
                   drvvars>>

\* lines 137, 152, 164: the syslog of handle_touchbar_events returns, and
\* it returns -1.
dfr_log_164 ==
    /\ dpc = "log_164"
    /\ dpc' = "log_247"
    /\ UNCHANGED <<running, touchbar_fd, last_discovery, wall, dloc, open_fds,
                   dexit, dobs, drvvars>>

\* line 247: syslog(LOG_WARNING, "... reconnecting") returns.
dfr_log_247 ==
    /\ dpc = "log_247"
    /\ dpc' = "close_248"
    /\ UNCHANGED <<running, touchbar_fd, last_discovery, wall, dloc, open_fds,
                   dexit, dobs, drvvars>>

\* lines 248-250: close(touchbar_fd); touchbar_fd = -1; continue;
dfr_close_248 ==
    /\ dpc = "close_248"
    /\ Closed(touchbar_fd)
    /\ touchbar_fd' = -1
    /\ dpc' = "while_226"
    /\ UNCHANGED <<running, last_discovery, wall, dloc, dexit, drvvars>>

\* lines 254-256: if (touchbar_fd >= 0) close(touchbar_fd);
dfr_end_254 ==
    /\ dpc = "end_254"
    /\ IF touchbar_fd >= 0 THEN Closed(touchbar_fd)
       ELSE UNCHANGED <<open_fds, dobs>>
    /\ dpc' = "log_258"
    /\ UNCHANGED <<running, touchbar_fd, last_discovery, wall, dloc, dexit,
                   drvvars>>

\* lines 258-261: syslog(...) returns; closelog(); return 0;
dfr_log_258 ==
    /\ dpc = "log_258"
    /\ dpc' = "exit"
    /\ dexit' = 0
    /\ UNCHANGED <<running, touchbar_fd, last_discovery, wall, dloc, open_fds,
                   dobs, drvvars>>

\* lines 48-52: SIGTERM, SIGINT or SIGHUP is delivered to the main thread:
\* running = 0; syslog(...).  syslog is not async-signal-safe: when the
\* signal interrupts a syslog call of the main thread the behaviour is
\* undefined; the handler's syslog either returns or waits for ever for
\* the lock the interrupted call holds.
signal_handler ==
    /\ dpc \notin {"exit", "hung"}
    /\ running' = 0
    /\ IF dpc \in SyslogPcs THEN dpc' \in {dpc, "hung"} ELSE UNCHANGED dpc
    /\ UNCHANGED <<touchbar_fd, last_discovery, wall, dloc, open_fds, dexit,
                   dobs, drvvars>>

InitDfr ==
    /\ DevInit
    /\ ev = NoEval
    /\ PlatBound
    /\ running = 1
    /\ touchbar_fd = -1
    /\ last_discovery = 0
    /\ wall = StartWall
    /\ dpc = "while_226"
    /\ dloc = NoDfrLocals
    /\ open_fds = {}
    /\ dexit = -1
    /\ dobs = NoDfrObs

DfrMain ==
    \/ dfr_while_226
    \/ dfr_if_228
    \/ dfr_time_229
    \/ dfr_find_69
    \/ dfr_log_70
    \/ dfr_find_74
    \/ dfr_find_84
    \/ dfr_set_233
    \/ dfr_log_237
    \/ dfr_sleep_241
    \/ dfr_poll_135
    \/ dfr_log_164
    \/ dfr_log_247
    \/ dfr_close_248
    \/ dfr_end_254
    \/ dfr_log_258

NextDfr == DfrMain \/ signal_handler

\* The main thread keeps being scheduled; signals come when they come.
SpecDfr == InitDfr /\ [][NextDfr]_vars /\ WF_vars(DfrMain)

(***************************************************************************)
(* Properties.                                                             *)
(***************************************************************************)

\* C1: cancellation safety.  In every reachable state a pending deferred
\* task implies that the controller is active: once appletb_remove has
\* returned, no re-evaluation is pending.
C1_NoTaskWhileDisabled == tb_work.pending => active

\* C2: activity always wins.  While the controller is active,
\* NotifyActivity(ts) in any mode makes the mode Active, records the
\* activity and leaves the one deferred task armed at ts + dim_timeout.
C2_ActivityAlwaysWins ==
    [][\A ts \in 0..MaxTime :
         (active /\ NotifyActivity(ts)) =>
            /\ tb_mode' = ModeActive
            /\ tb_mode_valid'
            /\ tb_live'
            /\ tb_last_activity' >= ts
            /\ tb_last_activity' >= tb_last_activity
            /\ tb_work'.pending
            /\ tb_work'.deadline = ts + dim_timeout]_vars

\* An activity has been taken while a task was pending for a later time
\* (now is past the activity): Active, armed dim_timeout after the activity.
C2_ActivityArmed ==
    /\ active /\ tb_live /\ tb_mode_valid /\ tb_mode = ModeActive
    /\ dim_timeout = 2
    /\ tb_work.pending /\ tb_work.deadline = tb_last_activity + dim_timeout
    /\ tb_last_activity = 2

\* C3: Evaluate follows the policy table for every mode, elapsed time and
\* config: t >= idle_timeout gives (Idle, no deadline); otherwise
\* t >= dim_timeout gives (Dimmed, idle_timeout - t); otherwise
\* (Active, dim_timeout - t); an unset liveness flag gives (Idle, no
\* deadline).
C3_EvaluateTable ==
    ev.applied =>
        /\ (~ev.live) => (ev.res.mode = ModeIdle /\ ~ev.res.armed)
        /\ (ev.live /\ ev.t >= ev.idle) =>
              (ev.res.mode = ModeIdle /\ ~ev.res.armed)
        /\ (ev.live /\ ev.t < ev.idle /\ ev.t >= ev.dim) =>
              /\ ev.res.mode = ModeDimmed
              /\ ev.res.armed
              /\ ev.res.delay = ev.idle - ev.t
        /\ (ev.live /\ ev.t < ev.idle /\ ev.t < ev.dim) =>
              /\ ev.res.mode = ModeActive
              /\ ev.res.armed
              /\ ev.res.delay = ev.dim - ev.t

\* Evaluate has returned Dimmed with two seconds left until idle.
C3_DimmedCase ==
    /\ ev.applied /\ ev.live
    /\ ev.t = 1 /\ ev.dim = 1 /\ ev.idle = 3
    /\ ev.res.mode = ModeDimmed /\ ev.res.armed /\ ev.res.delay = 2

\* C4: Idle is a fixed point.  Once the mode is Idle and no activity is
\* recorded (an activity makes the mode Active), every firing of the
\* deferred task leaves the mode Idle and leaves no task armed, and while
\* no task is armed none becomes armed.
C4_IdleFixedPoint ==
    [][(tb_mode_valid /\ tb_mode = ModeIdle) =>
         /\ OnTimerFired => (tb_mode' = ModeIdle /\ ~tb_work'.pending)
         /\ (~tb_work.pending /\ tb_mode' = ModeIdle) => ~tb_work'.pending]_vars

\* C5: when appletb_probe or appletb_reset_resume returns, the mode is
\* valid and is the mode Evaluate gives for the present config and activity
\* record, and a task is armed exactly when Evaluate gave a deadline.
C5_EnableEvaluates ==
    [][\A h \in HDevs :
         (appletb_probe(h) \/ appletb_reset_resume(h)) =>
            LET r == Evaluate(tb_mode, now - tb_last_activity, idle_timeout,
                              dim_timeout, tb_live) IN
            /\ active'
            /\ tb_mode_valid'
            /\ tb_mode' = r.mode
            /\ tb_work'.pending = r.armed]_vars

\* C6: there is one deferred task, and every arm leaves it pending with the
\* new deadline, whatever was pending before: now for the arm of
\* appletb_reset_resume, ts + dim_timeout for an activity at ts.
C6_ArmSupersedes ==
    [][/\ \A h \in HDevs :
            appletb_reset_resume(h) =>
               (tb_work'.pending /\ tb_work'.deadline = now)
       /\ \A ts \in 0..MaxTime :
            (active /\ NotifyActivity(ts)) =>
               (tb_work'.pending /\ tb_work'.deadline = ts + dim_timeout)]_vars

\* C7: the handlers serialise on tb_lock: no two contexts are at an access
\* to the device state at once.
C7_Serialized ==
    \A c1, c2 \in Contexts :
        (pc[c1] # "idle" /\ pc[c2] # "idle") => c1 = c2

\* The first character of buf after leading white space, "" if none.
FirstChar(buf) ==
    IF \A i \in 1..Len(buf) : buf[i] \in SpaceChars THEN ""
    ELSE buf[CHOOSE i \in 1..Len(buf) :
                /\ buf[i] \notin SpaceChars
                /\ \A j \in 1..(i - 1) : buf[j] \in SpaceChars]

\* buf is a negative number, or no number at all.
Rejectable(buf) == FirstChar(buf) \notin DigitChars

\* C8: a store of a negative or unparsable value to idle_timeout or
\* dim_timeout returns -EINVAL and leaves the stored timeout as it was,
\* which the following show prints; the stored timeouts are never negative.
C8_BadTimeoutRejected ==
    /\ [](idle_timeout >= 0 /\ dim_timeout >= 0)
    /\ [](last.op = "idle_timeout_show" => ScanfU(last.out).val = idle_timeout)
    /\ [](last.op = "dim_timeout_show" => ScanfU(last.out).val = dim_timeout)
    /\ [][/\ (Rejectable(last'.arg) /\ idle_timeout_store(last'.arg)) =>
              (last'.rc = -EINVAL /\ idle_timeout' = idle_timeout)
          /\ (Rejectable(last'.arg) /\ dim_timeout_store(last'.arg)) =>
              (last'.rc = -EINVAL /\ dim_timeout' = dim_timeout)]_vars

\* A store to idle_timeout has been rejected after one that stored 12.
C8_RejectedKeepsValue ==
    /\ last.op = "idle_timeout_store" /\ last.arg = <<"-", "1">>
    /\ last.rc = -EINVAL
    /\ idle_timeout = 11

C10_Idempotent ==
    [][\A h \in HDevs :
         /\ (active /\ appletb_probe(h)) =>
               UNCHANGED <<active, cfgvars, tb_work>>
         /\ (~active /\ appletb_remove(h)) =>
               UNCHANGED <<active, cfgvars, tb_work>>]_vars

\* Both hid devices are bound and the controller is active with a task
\* pending: the second probe found it active.
C10_ProbedTwice ==
    /\ \A h \in HDevs : hid[h] = "bound"
    /\ active
    /\ tb_work.pending

\* C11: while the controller is inactive, an activity notification or a
\* firing of the deferred task leaves the mode, the activity record, the
\* config and the pending task as they were.
C11_DisabledIgnores ==
    [][(~active /\ ((\E ts \in 0..MaxTime : NotifyActivity(ts)) \/ OnTimerFired)) =>
          UNCHANGED <<modevars, cfgvars, tb_work>>]_vars

C13_NoTaskOnFreed ==
    /\ [](tb_dev = "freed" => (~tb_work.pending /\ ~work_running))
    /\ [](ppc.at \in {"probe_297", "remove_297"} =>
             (~tb_work.pending /\ ~work_running))
    /\ [][(work_begin \/ work_end) => (tb_dev = "live" /\ tb_dev' = "live")]_vars

\* appletb_platform_remove has freed the device after its cancellation
\* found the work pending.
C13_FreedAfterCancel ==
    /\ tb_dev = "freed"
    /\ prc = PlatReturned("platform_remove", 0, TRUE)
    /\ ~tb_work.pending /\ ~work_running

\* C14: a failed appletb_platform_probe returns -ENOMEM when the allocation
\* failed and the error of appleib_register_hid_driver when the registration
\* failed, and once it has returned no device state is allocated, no driver
\* data is set, no attribute group is exposed, the HID driver is not
\* registered and no work is pending.
C14_FailedProbeLeavesNothing ==
    /\ []((prc.op = "platform_probe" /\ prc.rc # 0 /\ ppc.at = "unbound") =>
            /\ tb_dev # "live"
            /\ ~registered /\ ~drvdata /\ ~attr_group
            /\ ~tb_work.pending /\ ~work_running)
    /\ [][/\ (platform_probe_307 /\ tb_dev' # "live") =>
               prc' = PlatReturned("platform_probe", -ENOMEM, FALSE)
          /\ (ppc.at = "probe_297" /\ ppc'.at # "probe_297") =>
               (prc'.op = "platform_probe" /\ prc'.rc = ppc.rc
                /\ prc'.rc \in HidErrs)
          /\ (ppc.at = "probe_311" /\ ~registered') =>
               (ppc'.rc \in HidErrs /\ ppc'.at = "probe_296")]_vars

\* appletb_platform_probe has returned the error of the registration and
\* has freed what it allocated.
C14_RegistrationFailed ==
    /\ prc.op = "platform_probe" /\ prc.rc = -ENODEV
    /\ ppc.at = "unbound"
    /\ tb_dev = "freed"

\* C15: when appleib_unregister_hid_driver fails, appletb_platform_remove
\* returns its error and leaves the device state allocated; the HID
\* callbacks, which stay registered, only ever run on a live device, and
\* the device is freed by appletb_platform_remove only once the HID driver
\* is unregistered.
C15_FailedRemoveKeepsDevice ==
    /\ [](registered => tb_dev = "live")
    /\ [](ppc.at = "remove_failed" =>
            (tb_dev = "live" /\ prc.op = "platform_remove" /\ prc.rc \in HidErrs))
    /\ []((ppc.at \in {"remove_296", "remove_297"}) => (~registered /\ ppc.rc = 0))
    /\ [][\A h \in HDevs :
            (appletb_probe(h) \/ appletb_remove(h) \/ appletb_suspend(h)
               \/ appletb_reset_resume(h)) => tb_dev = "live"]_vars

\* appletb_platform_remove has failed while a HID device is bound and the
\* controller is active: the callbacks go on with the device allocated.
C15_RemoveFailedWhileBound ==
    /\ ppc.at = "remove_failed"
    /\ prc = PlatReturned("platform_remove", -ENODEV, FALSE)
    /\ registered /\ active
    /\ \E h \in HDevs : hid[h] = "bound"
    /\ tb_dev = "live"

\* Positions inside find_touchbar_device and at its return.
FindPcs == {"find_69", "log_70", "find_74", "find_84", "set_233"}

\* C16: descriptor discipline of the tiny-dfr main loop.  At most one
\* descriptor is open at any time; no close ever hits a descriptor that is
\* not open; when find_touchbar_device returns, the only descriptor left
\* open is the one it returns; in the loop the open descriptor is
\* touchbar_fd; the close after a device error leaves touchbar_fd at -1, and
\* at exit nothing is open.
C16_DescriptorDiscipline ==
    /\ [](Cardinality(open_fds) <= 1)
    /\ [](~dobs.ebadf)
    /\ [](dpc \in FindPcs => (touchbar_fd = -1 /\ open_fds \subseteq {dloc.fd}))
    /\ [](dpc = "set_233" =>
            open_fds = IF dloc.found_fd >= 0 THEN {dloc.found_fd} ELSE {})
    /\ []((dpc \notin FindPcs \cup {"log_258", "exit", "hung"}) =>
            open_fds = IF touchbar_fd >= 0 THEN {touchbar_fd} ELSE {})
    /\ [](dpc \in {"log_258", "exit"} => open_fds = {})
    /\ [][(dpc = "close_248" /\ dpc' # dpc) =>
            (touchbar_fd' = -1 /\ open_fds' = {} /\ open_fds = {touchbar_fd})]_vars

\* The daemon has exited after holding descriptor 3, which it closed at
\* shutdown, and after a device error before that.
C16_ClosedAtShutdown ==
    /\ dexit = 0
    /\ touchbar_fd = 3
    /\ open_fds = {}
    /\ dobs.errors >= 1

\* C17: reconnect and retry pacing.  The first discovery attempt is made on
\* the first iteration of the loop; two successive attempts are at least 5
\* seconds apart; discovery runs only while touchbar_fd is -1; after an
\* error of handle_touchbar_events the descriptor is dropped and, while the
\* daemon keeps running, discovery is attempted again.
C17_RetryPacing ==
    /\ []((dobs.attempts = 0 /\ dobs.iterations >= 1) =>
            (dobs.iterations = 1 /\ dpc \in {"if_228", "time_229"}))
    /\ [][(dpc = "time_229" /\ dpc' = "find_69" /\ dobs.attempts > 0) =>
            wall - dobs.prev >= DISCOVERY_INTERVAL]_vars
    /\ [][(dpc = "time_229" /\ dpc' = "find_69") => touchbar_fd = -1]_vars
    /\ [](dpc \in FindPcs => touchbar_fd = -1)
    /\ [][(dpc = "poll_135" /\ dpc' = "log_164") => touchbar_fd >= 0]_vars
    /\ ((dpc = "log_164" /\ last_discovery + DISCOVERY_INTERVAL <= MaxWall)
          ~> ((touchbar_fd = -1 /\ dpc = "find_69") \/ running = 0))

\* A second discovery is under way after a device error, with the daemon
\* still running.
C17_RediscoveryAfterError ==
    /\ dpc = "find_69"
    /\ dobs.attempts = 2
    /\ dobs.errors >= 1
    /\ running = 1
    /\ wall - dobs.prev = 0
    /\ wall - last_discovery >= DISCOVERY_INTERVAL

\* C18: shutdown.  Once a signal has cleared running the loop starts no
\* further iteration, and the daemon reaches exit with status 0.
C18_ShutdownExits ==
    /\ [][(running = 0 /\ dpc = "while_226" /\ dpc' # dpc) =>
            dpc' = "end_254"]_vars
    /\ [](dexit \in {-1, 0})
    /\ ((running = 0) ~> (dexit = 0))

====
